---- MODULE Spec2Model ----
(***************************************************************************)
(* Travel Guide (Streamlit + OpenAI): session state, the model fallback    *)
(* loop of get_plan_markdown, and the line parser markdown_to_flowables.   *)
(* Strings the code inspects character by character are sequences of       *)
(* one-character strings; strings it only tests for emptiness or stores    *)
(* are TLA+ strings.                                                       *)
(***************************************************************************)
EXTENDS Integers, Sequences, FiniteSets, TLC

VARIABLES
    destination, num_days, interests, guardrails,   \* st.session_state form keys
    plan_md, last_model_used, last_usage,            \* st.session_state plan + metadata
    pc,            \* "idle": script run finished; "loop": inside get_plan_markdown
    idx,           \* position of the for loop in FALLBACK_MODELS (1-based)
    last_error,    \* local last_error of get_plan_markdown
    calls,         \* collaborator invocations of the current script run, in order
    result,        \* how the current/latest script run ended
    pre,           \* plan text + metadata at the start of the latest submit
    download,      \* outcome of the output rendering block of the latest run
    shown,         \* plan text displayed by the latest run (empty: none)
    md_text, lines, i, flow, mpc,  \* markdown_to_flowables: argument and locals
    fn_in, fn_out, fpc             \* a pure function: arguments, result, position

vars == << destination, num_days, interests, guardrails, plan_md,
           last_model_used, last_usage, pc, idx, last_error, calls, result,
           pre, download, shown, md_text, lines, i, flow, mpc,
           fn_in, fn_out, fpc >>

sessionVars == << destination, num_days, interests, guardrails, plan_md,
                  last_model_used, last_usage, pc, idx, last_error, calls,
                  result, pre, download, shown >>

mdVars == << md_text, lines, i, flow, mpc >>

fnVars == << fn_in, fn_out, fpc >>

----------------------------------------------------------------------------
(* Bounds of the model *)

MaxLen == 6        \* longest md_text given to markdown_to_flowables
MaxFrags == 2      \* longest fragment list of a completion
MaxField == 2      \* longest interests / guardrails given to build_user_prompt

----------------------------------------------------------------------------
(* Character-level string functions (Python str methods) *)

Whitespace == {" ", "\n", "\t"}

LineBreaks == {"\n"}

BulletMarkers == {"-", "*", "U+2022"}

RECURSIVE LStrip(_)
LStrip(s) ==
    IF s # << >> /\ Head(s) \in Whitespace THEN LStrip(Tail(s)) ELSE s

RECURSIVE RStrip(_)
RStrip(s) ==
    IF s # << >> /\ s[Len(s)] \in Whitespace
    THEN RStrip(SubSeq(s, 1, Len(s) - 1))
    ELSE s

Strip(s) == LStrip(RStrip(s))

StartsWith(s, p) == Len(s) >= Len(p) /\ SubSeq(s, 1, Len(p)) = p

StartsWithAny(s, ms) == s # << >> /\ Head(s) \in ms

From(s, k) == SubSeq(s, k + 1, Len(s))      \* Python s[k:]

FirstBreak(s) ==
    IF \E k \in 1..Len(s) : s[k] \in LineBreaks
    THEN CHOOSE k \in 1..Len(s) :
            /\ s[k] \in LineBreaks
            /\ \A j \in 1..(k - 1) : s[j] \notin LineBreaks
    ELSE 0

RECURSIVE SplitLines(_)
SplitLines(s) ==
    IF s = << >> THEN << >>
    ELSE LET k == FirstBreak(s)
         IN  IF k = 0 THEN << s >>
             ELSE << SubSeq(s, 1, k - 1) >> \o SplitLines(From(s, k))

RECURSIVE JoinLines(_)
JoinLines(parts) ==
    IF parts = << >> THEN << >>
    ELSE IF Len(parts) = 1 THEN parts[1]
    ELSE parts[1] \o << "\n" >> \o JoinLines(Tail(parts))

SeqsUpTo(S, n) == UNION { [1..k -> S] : k \in 0..n }

----------------------------------------------------------------------------
(* Session state *)

DefaultDays == 3
MinDays == 1
MaxDays == 30

Absent == "<absent>"     \* key not in st.session_state
NoneVal == "None"

FALLBACK_MODELS == << "gpt-5", "gpt-5-mini", "gpt-4.1" >>

NoError == [kind |-> "none", id |-> ""]

init_form_state ==
    /\ destination = ""
    /\ num_days = DefaultDays
    /\ interests = ""
    /\ guardrails = ""
    /\ plan_md = << >>
    /\ last_model_used = Absent
    /\ last_usage = Absent

reset_all_callbackKeepsDays ==
    /\ destination' = ""
    /\ UNCHANGED num_days
    /\ interests' = ""
    /\ guardrails' = ""
    /\ plan_md' = << >>
    /\ last_model_used' = Absent
    /\ last_usage' = Absent

\* a callback that leaves last_model_used in place
reset_all_callbackKeepsModel ==
    /\ destination' = ""
    /\ num_days' = DefaultDays
    /\ interests' = ""
    /\ guardrails' = ""
    /\ plan_md' = << >>
    /\ UNCHANGED last_model_used
    /\ last_usage' = Absent

reset_all_callback ==
    /\ destination' = ""
    /\ num_days' = DefaultDays
    /\ interests' = ""
    /\ guardrails' = ""
    /\ plan_md' = << >>
    /\ last_model_used' = Absent
    /\ last_usage' = Absent

----------------------------------------------------------------------------
(* Inputs: what the user can type and what the collaborator can answer *)

Destinations == {"", "Rome"}
Days == {MinDays, DefaultDays, MaxDays}
Interests == {"", "art"}
Guardrails == {"", "kid-friendly"}

\* string-valued message contents: empty, whitespace-only, and with text
Texts == { << >>, << " " >>, << "\n", " " >>, << "a" >>, << " ", "a", "\n" >> }

\* one element of a list-valued message content
Fragments ==
    [kind : {"str", "dict"}, text : {<< " " >>, << "a" >>}]
        \cup { [kind |-> "dict_notext", text |-> << >>],
               [kind |-> "other", text |-> << >>] }

\* comp.choices[0].message.content
Contents ==
    [kind : {"str"}, s : Texts, parts : {<< >>}]
        \cup [kind : {"list"}, s : {<< >>}, parts : SeqsUpTo(Fragments, MaxFrags)]
        \cup { [kind |-> "none", s |-> << >>, parts |-> << >>] }

Usages == {Absent, "U1"}

\* has_choice = FALSE: comp.choices is empty, there is no message
Completions ==
    [has_choice : {TRUE}, content : Contents, usage : Usages]
        \cup [has_choice : {FALSE},
              content : { [kind |-> "none", s |-> << >>, parts |-> << >>] },
              usage : Usages]

Exceptions == { [kind |-> "exc", id |-> "timeout"], [kind |-> "exc", id |-> "auth"] }

----------------------------------------------------------------------------
(* Text extraction and the fallback loop *)

RECURSIVE FragmentTexts(_)
FragmentTexts(parts) ==
    IF parts = << >> THEN << >>
    ELSE LET p == Head(parts)
         IN  (IF p.kind \in {"str", "dict"} THEN << p.text >> ELSE << >>)
                \o FragmentTexts(Tail(parts))

\* a variant that trims a string content before returning it
_extract_text_trimmed(comp) ==
    IF ~comp.has_choice THEN << >>
    ELSE LET txt == comp.content
         IN  IF txt.kind = "str" /\ Strip(txt.s) # << >> THEN Strip(txt.s)
             ELSE IF txt.kind = "list"
                  THEN Strip(JoinLines(FragmentTexts(txt.parts)))
                  ELSE << >>

_extract_text_from_chat_completion(comp) ==
    IF ~comp.has_choice THEN << >>
    ELSE LET txt == comp.content
         IN  IF txt.kind = "str" /\ Strip(txt.s) # << >> THEN txt.s
             ELSE IF txt.kind = "list"
                  THEN Strip(JoinLines(FragmentTexts(txt.parts)))
                  ELSE << >>

EmptyContentError(model_name) == [kind |-> "empty", id |-> model_name]

\* str(last_error)
ErrStr(e) ==
    IF e.kind = "empty" THEN << "Model '", e.id, "' returned empty content." >>
    ELSE IF e.kind = "exc" THEN << e.id >>
    ELSE << "None" >>

AllFailedMessage(e) == << "All model attempts failed. Last error: " >> \o ErrStr(e)

GetUsage(comp) == IF comp.usage = Absent THEN NoneVal ELSE comp.usage

NoResult == [kind |-> "none", text |-> << >>, msg |-> << >>]

\* output rendering + PDF download, on the plan text p the run ends with
\* a block whose display is lost when write_pdf raises
RenderHidesPlanOnError(p) ==
    IF Strip(p) # << >>
    THEN /\ download' \in {"offered", "pdf_error"}
         /\ shown' = IF download' = "pdf_error" THEN << >> ELSE p
    ELSE /\ download' = "none"
         /\ shown' = << >>

\* a block without the "if plan_md.strip()" guard
RenderUnguarded(p) ==
    /\ download' \in {"offered", "pdf_error"}
    /\ shown' = p

Render(p) ==
    IF Strip(p) # << >>
    THEN /\ download' \in {"offered", "pdf_error"}
         /\ shown' = p
    ELSE /\ download' = "none"
         /\ shown' = << >>

\* one invocation of the collaborator: the identifier, the exception raised
\* ("" if none), the text extracted from the answer and the answer's usage
CallRecord(m, raised, text, usage) ==
    [model |-> m, raised |-> raised, text |-> text, usage |-> usage]

\* "if not st.session_state['destination']"
DestinationMissingNever(d) == FALSE

DestinationMissing(d) == d = ""

\* success branch of get_plan_markdown and the assignment of its return value
StoreSuccessFirstModel(model_name, comp, text) ==
    /\ last_model_used' = FALLBACK_MODELS[1]
    /\ last_usage' = GetUsage(comp)
    /\ plan_md' = text

StoreSuccessStripped(model_name, comp, text) ==
    /\ last_model_used' = model_name
    /\ last_usage' = GetUsage(comp)
    /\ plan_md' = Strip(text)

StoreSuccess(model_name, comp, text) ==
    /\ last_model_used' = model_name
    /\ last_usage' = GetUsage(comp)
    /\ plan_md' = text

\* "last_error = RuntimeError(...returned empty content.)"
RecordEmptyKeepsPrevious(model_name) == UNCHANGED last_error

RecordEmpty(model_name) == last_error' = EmptyContentError(model_name)

Submit(d, n, it, g) ==
    /\ pc = "idle"
    /\ destination' = d
    /\ num_days' = n
    /\ interests' = it
    /\ guardrails' = g
    /\ pre' = << plan_md, last_model_used, last_usage >>
    /\ calls' = << >>
    /\ idx' = 1
    /\ last_error' = NoError
    /\ UNCHANGED << plan_md, last_model_used, last_usage >>
    /\ IF DestinationMissing(d)
       THEN /\ result' = [kind |-> "warning", text |-> << >>, msg |-> << >>]
            /\ pc' = "idle"
            /\ Render(plan_md)
       ELSE /\ result' = [kind |-> "running", text |-> << >>, msg |-> << >>]
            /\ pc' = "loop"
            /\ download' = "none"
            /\ shown' = << >>
    /\ UNCHANGED mdVars
    /\ UNCHANGED fnVars

\* an except branch that tries the same identifier again
AttemptRaisesRetries(e) ==
    /\ pc = "loop"
    /\ idx <= Len(FALLBACK_MODELS)
    /\ calls' = Append(calls, CallRecord(FALLBACK_MODELS[idx], e.id, << >>,
                                         Absent))
    /\ last_error' = e
    /\ UNCHANGED << destination, num_days, interests, guardrails, plan_md,
                    last_model_used, last_usage, pc, idx, result, pre,
                    download, shown >>
    /\ UNCHANGED mdVars
    /\ UNCHANGED fnVars

AttemptRaises(e) ==
    /\ pc = "loop"
    /\ idx <= Len(FALLBACK_MODELS)
    /\ calls' = Append(calls, CallRecord(FALLBACK_MODELS[idx], e.id, << >>,
                                         Absent))
    /\ last_error' = e
    /\ idx' = idx + 1
    /\ UNCHANGED << destination, num_days, interests, guardrails, plan_md,
                    last_model_used, last_usage, pc, result, pre, download,
                    shown >>
    /\ UNCHANGED mdVars
    /\ UNCHANGED fnVars

AttemptEmpty(comp) ==
    /\ pc = "loop"
    /\ idx <= Len(FALLBACK_MODELS)
    /\ LET text == _extract_text_from_chat_completion(comp)
       IN  /\ Strip(text) = << >>
           /\ calls' = Append(calls, CallRecord(FALLBACK_MODELS[idx], "", text,
                                                comp.usage))
    /\ RecordEmpty(FALLBACK_MODELS[idx])
    /\ idx' = idx + 1
    /\ UNCHANGED << destination, num_days, interests, guardrails, plan_md,
                    last_model_used, last_usage, pc, result, pre, download,
                    shown >>
    /\ UNCHANGED mdVars
    /\ UNCHANGED fnVars

AttemptSucceeds(comp) ==
    /\ pc = "loop"
    /\ idx <= Len(FALLBACK_MODELS)
    /\ LET text == _extract_text_from_chat_completion(comp)
       IN  /\ Strip(text) # << >>
           /\ calls' = Append(calls, CallRecord(FALLBACK_MODELS[idx], "", text,
                                                comp.usage))
           /\ StoreSuccess(FALLBACK_MODELS[idx], comp, text)
           /\ result' = [kind |-> "return", text |-> text, msg |-> << >>]
           /\ Render(text)
    /\ pc' = "idle"
    /\ idx' = 1
    /\ last_error' = NoError
    /\ UNCHANGED << destination, num_days, interests, guardrails, pre >>
    /\ UNCHANGED mdVars
    /\ UNCHANGED fnVars

\* a variant that returns "" instead of raising
AllAttemptsFailedReturnsEmpty ==
    /\ pc = "loop"
    /\ idx > Len(FALLBACK_MODELS)
    /\ result' = [kind |-> "raise", text |-> << >>,
                  msg |-> AllFailedMessage(last_error)]
    /\ plan_md' = << >>
    /\ pc' = "idle"
    /\ idx' = 1
    /\ last_error' = NoError
    /\ UNCHANGED << destination, num_days, interests, guardrails,
                    last_model_used, last_usage, calls, pre, download,
                    shown >>
    /\ UNCHANGED mdVars
    /\ UNCHANGED fnVars

AllAttemptsFailed ==
    /\ pc = "loop"
    /\ idx > Len(FALLBACK_MODELS)
    /\ result' = [kind |-> "raise", text |-> << >>,
                  msg |-> AllFailedMessage(last_error)]
    /\ pc' = "idle"
    /\ idx' = 1
    /\ last_error' = NoError
    /\ UNCHANGED << destination, num_days, interests, guardrails, plan_md,
                    last_model_used, last_usage, calls, pre, download,
                    shown >>
    /\ UNCHANGED mdVars
    /\ UNCHANGED fnVars

Reset ==
    /\ pc = "idle"
    /\ reset_all_callback
    /\ calls' = << >>
    /\ result' = [kind |-> "reset", text |-> << >>, msg |-> << >>]
    /\ Render(<< >>)
    /\ UNCHANGED << pc, idx, last_error, pre >>
    /\ UNCHANGED mdVars
    /\ UNCHANGED fnVars

SelfTest ==
    /\ pc = "idle"
    /\ \E raised \in {"", "timeout"} :
          calls' = << CallRecord(FALLBACK_MODELS[1], raised, << >>, Absent) >>
    /\ result' = NoResult
    /\ Render(plan_md)
    /\ UNCHANGED << destination, num_days, interests, guardrails, plan_md,
                    last_model_used, last_usage, pc, idx, last_error, pre >>
    /\ UNCHANGED mdVars
    /\ UNCHANGED fnVars

DownloadClick ==
    /\ pc = "idle"
    /\ download = "offered"
    /\ calls' = << >>
    /\ result' = NoResult
    /\ Render(plan_md)
    /\ UNCHANGED << destination, num_days, interests, guardrails, plan_md,
                    last_model_used, last_usage, pc, idx, last_error, pre >>
    /\ UNCHANGED mdVars
    /\ UNCHANGED fnVars

MdOff ==
    /\ md_text = << >>
    /\ lines = << >>
    /\ i = 0
    /\ flow = << >>
    /\ mpc = "off"

SessionInit ==
    /\ init_form_state
    /\ pc = "idle"
    /\ idx = 1
    /\ last_error = NoError
    /\ calls = << >>
    /\ result = NoResult
    /\ pre = << << >>, Absent, Absent >>
    /\ download = "none"
    /\ shown = << >>

FnOff ==
    /\ fn_in = << >>
    /\ fn_out = << >>
    /\ fpc = "off"

Init == SessionInit /\ MdOff /\ FnOff

Next ==
    \/ \E d \in Destinations, n \in Days, it \in Interests, g \in Guardrails :
          Submit(d, n, it, g)
    \/ \E e \in Exceptions : AttemptRaises(e)
    \/ \E comp \in Completions : AttemptEmpty(comp)
    \/ \E comp \in Completions : AttemptSucceeds(comp)
    \/ AllAttemptsFailed
    \/ Reset
    \/ SelfTest
    \/ DownloadClick

Spec == Init /\ [][Next]_vars

----------------------------------------------------------------------------
(* markdown_to_flowables: one action per branch of the while loop.         *)
(* lines is 1-based, so i here is the code's i + 1.                        *)

MdChars == {" ", "#", "-", "*", "a", "\n"}

Element(type, level, text, items, h) ==
    [type |-> type, level |-> level, text |-> text, items |-> items, h |-> h]

Spacer(h) == Element("Spacer", 0, << >>, << >>, h)

Heading(level, text) == Element("Heading", level, text, << >>, 0)

ParagraphEl(text) == Element("Paragraph", 0, text, << >>, 0)

BulletGroup(items) == Element("BulletGroup", 0, << >>, items, 0)

CurLine == RStrip(lines[i])

IsBlank(line) == Strip(line) = << >>

IsH2(line) == StartsWith(line, << "#", "#", " " >>)

IsH3(line) == StartsWith(line, << "#", "#", "#", " " >>)

IsBulletLine(l) == StartsWithAny(LStrip(l), BulletMarkers)

BulletText(l) == Strip(From(LStrip(l), 1))

\* a run that stops after its first line
RunEndSingle(k) == k + 1

\* index at which the inner while of the bullet branch stops, started at k
RECURSIVE RunEnd(_)
RunEnd(k) ==
    IF k <= Len(lines) /\ IsBulletLine(lines[k]) THEN RunEnd(k + 1) ELSE k

RunItems(a, e) == [j \in 1..(e - a) |-> BulletText(lines[a + j - 1])]

MdLoop == mpc = "loop" /\ i <= Len(lines)

\* a blank branch that does not add a Spacer after a Spacer
StepBlankCoalesce ==
    /\ MdLoop
    /\ IsBlank(CurLine)
    /\ flow' = IF flow # << >> /\ flow[Len(flow)].type = "Spacer"
               THEN flow
               ELSE Append(flow, Spacer(6))
    /\ i' = i + 1
    /\ UNCHANGED << md_text, lines, mpc >>
    /\ UNCHANGED sessionVars
    /\ UNCHANGED fnVars

\* a blank branch that forgets "i += 1"
StepBlankNoAdvance ==
    /\ MdLoop
    /\ IsBlank(CurLine)
    /\ flow' = Append(flow, Spacer(6))
    /\ UNCHANGED << md_text, lines, i, mpc >>
    /\ UNCHANGED sessionVars
    /\ UNCHANGED fnVars

StepBlank ==
    /\ MdLoop
    /\ IsBlank(CurLine)
    /\ flow' = Append(flow, Spacer(6))
    /\ i' = i + 1
    /\ UNCHANGED << md_text, lines, mpc >>
    /\ UNCHANGED sessionVars
    /\ UNCHANGED fnVars

StepH2 ==
    /\ MdLoop
    /\ ~IsBlank(CurLine)
    /\ IsH2(CurLine)
    /\ flow' = Append(flow, Heading(2, Strip(From(CurLine, 3))))
    /\ i' = i + 1
    /\ UNCHANGED << md_text, lines, mpc >>
    /\ UNCHANGED sessionVars
    /\ UNCHANGED fnVars

StepH3 ==
    /\ MdLoop
    /\ ~IsBlank(CurLine)
    /\ ~IsH2(CurLine)
    /\ IsH3(CurLine)
    /\ flow' = Append(flow, Heading(3, Strip(From(CurLine, 4))))
    /\ i' = i + 1
    /\ UNCHANGED << md_text, lines, mpc >>
    /\ UNCHANGED sessionVars
    /\ UNCHANGED fnVars

StepBullets ==
    /\ MdLoop
    /\ ~IsBlank(CurLine)
    /\ ~IsH2(CurLine)
    /\ ~IsH3(CurLine)
    /\ IsBulletLine(CurLine)
    /\ LET e == RunEnd(i)
       IN  /\ flow' = flow \o << BulletGroup(RunItems(i, e)), Spacer(4) >>
           /\ i' = e
    /\ UNCHANGED << md_text, lines, mpc >>
    /\ UNCHANGED sessionVars
    /\ UNCHANGED fnVars

\* a fall-through branch that advances without emitting the Paragraph
StepParagraphDropsLine ==
    /\ MdLoop
    /\ ~IsBlank(CurLine)
    /\ ~IsH2(CurLine)
    /\ ~IsH3(CurLine)
    /\ ~IsBulletLine(CurLine)
    /\ i' = i + 1
    /\ UNCHANGED << md_text, lines, flow, mpc >>
    /\ UNCHANGED sessionVars
    /\ UNCHANGED fnVars

StepParagraph ==
    /\ MdLoop
    /\ ~IsBlank(CurLine)
    /\ ~IsH2(CurLine)
    /\ ~IsH3(CurLine)
    /\ ~IsBulletLine(CurLine)
    /\ flow' = Append(flow, ParagraphEl(CurLine))
    /\ i' = i + 1
    /\ UNCHANGED << md_text, lines, mpc >>
    /\ UNCHANGED sessionVars
    /\ UNCHANGED fnVars

MdReturn ==
    /\ mpc = "loop"
    /\ i > Len(lines)
    /\ mpc' = "done"
    /\ UNCHANGED << md_text, lines, i, flow >>
    /\ UNCHANGED sessionVars
    /\ UNCHANGED fnVars

MdInit ==
    /\ SessionInit
    /\ FnOff
    /\ md_text \in SeqsUpTo(MdChars, MaxLen)
    /\ lines = SplitLines(md_text)
    /\ i = 1
    /\ flow = << >>
    /\ mpc = "loop"

MdNext ==
    \/ StepBlank
    \/ StepH2
    \/ StepH3
    \/ StepBullets
    \/ StepParagraph
    \/ MdReturn

SpecMd == MdInit /\ [][MdNext]_vars

\* the interpreter keeps executing the loop until it returns
FairSpecMd == MdInit /\ [][MdNext]_vars /\ WF_vars(MdNext)

----------------------------------------------------------------------------
(* _extract_text_from_chat_completion applied to every completion shape *)

ExtractInit ==
    /\ SessionInit
    /\ MdOff
    /\ fn_in \in Completions
    /\ fn_out = << >>
    /\ fpc = "call"

ExtractCall ==
    /\ fpc = "call"
    /\ fn_out' = _extract_text_from_chat_completion(fn_in)
    /\ fpc' = "done"
    /\ UNCHANGED fn_in
    /\ UNCHANGED sessionVars
    /\ UNCHANGED mdVars

SpecExtract == ExtractInit /\ [][ExtractCall]_vars

----------------------------------------------------------------------------
(* build_user_prompt. The fixed words of the template are single symbols;  *)
(* its indentation, its line breaks and the blanks next to the inserted    *)
(* values are characters.                                                  *)

PromptChars == {" ", "a", "\n"}

PromptDestinations == { << "a" >>, << "a", " ", "a" >> }

Digit(k) ==
    CASE k = 0 -> "0" [] k = 1 -> "1" [] k = 2 -> "2" [] k = 3 -> "3"
      [] k = 4 -> "4" [] k = 5 -> "5" [] k = 6 -> "6" [] k = 7 -> "7"
      [] k = 8 -> "8" [] k = 9 -> "9"

\* str(num_days) for num_days >= 0
RECURSIVE IntStr(_)
IntStr(n) ==
    IF n < 10 THEN << Digit(n) >> ELSE IntStr(n \div 10) \o << Digit(n % 10) >>

Indent == << " ", " ", " ", " " >>

\* the f-string of build_user_prompt before dedent
PromptTemplate(d, n, it, g) ==
    << "\n" >>
    \o Indent \o << "TRIP INPUTS", "\n" >>
    \o Indent \o << "- Destination:", " " >> \o d \o << "\n" >>
    \o Indent \o << "- Number of days:", " " >> \o IntStr(n) \o << "\n" >>
    \o Indent \o << "- Special interests:", " " >>
        \o (IF it # << >> THEN it ELSE << "No special interests provided" >>)
        \o << "\n" >>
    \o Indent \o << "- Guardrails / constraints:", " " >>
        \o (IF g # << >> THEN g ELSE << "None" >>)
        \o << "\n" >>
    \o << "\n" >>
    \o Indent \o << "REQUIREMENTS", "\n" >>
    \o Indent \o << "- Create a complete plan for all", " " >> \o IntStr(n)
        \o << " ", "days.", "\n" >>
    \o Indent \o << "- Divide each day into Morning / Afternoon / Evening.", "\n" >>
    \o Indent \o << "- For each activity, give a short reason why it fits the interests.", "\n" >>
    \o Indent \o << "- Make sure every item respects the guardrails.", "\n" >>
    \o Indent \o << "- Keep it readable (around 800-1400 words depending on trip length).", "\n" >>
    \o Indent

\* s.split("\n"): the lines between the line breaks, empty ones kept
RECURSIVE SplitNL(_)
SplitNL(s) ==
    LET k == FirstBreak(s)
    IN  IF k = 0 THEN << s >>
        ELSE << SubSeq(s, 1, k - 1) >> \o SplitNL(From(s, k))

Blanks == {" ", "\t"}

\* textwrap.dedent step 1: a line of blanks and tabs only becomes empty
NormalizeBlankLine(l) == IF \A k \in 1..Len(l) : l[k] \in Blanks THEN << >> ELSE l

RECURSIVE LeadingBlanks(_)
LeadingBlanks(l) ==
    IF l # << >> /\ Head(l) \in Blanks
    THEN << Head(l) >> \o LeadingBlanks(Tail(l))
    ELSE << >>

RECURSIVE CommonPrefix(_, _)
CommonPrefix(x, y) ==
    IF x # << >> /\ y # << >> /\ Head(x) = Head(y)
    THEN << Head(x) >> \o CommonPrefix(Tail(x), Tail(y))
    ELSE << >>

\* textwrap.dedent step 2: the margin is narrowed by the indent of every
\* line that has a character other than blank or tab; "none" before the first
RECURSIVE Margin(_, _)
Margin(ls, margin) ==
    IF ls = << >> THEN margin
    ELSE LET l == Head(ls)
             indent == LeadingBlanks(l)
         IN  IF l = << >> THEN Margin(Tail(ls), margin)
             ELSE IF margin = << "none" >> THEN Margin(Tail(ls), indent)
             ELSE IF StartsWith(indent, margin) THEN Margin(Tail(ls), margin)
             ELSE IF StartsWith(margin, indent) THEN Margin(Tail(ls), indent)
             ELSE Margin(Tail(ls), CommonPrefix(margin, indent))

\* textwrap.dedent
Dedent(text) ==
    LET raw == SplitNL(text)
        ls == [k \in 1..Len(raw) |-> NormalizeBlankLine(raw[k])]
        m == Margin(ls, << "none" >>)
        cut == IF m = << "none" >> THEN << >> ELSE m
    IN  JoinLines([k \in 1..Len(ls) |->
                      IF cut # << >> /\ StartsWith(ls[k], cut)
                      THEN From(ls[k], Len(cut))
                      ELSE ls[k]])

build_user_prompt(d, n, it, g) == Strip(Dedent(PromptTemplate(d, n, it, g)))

PromptInit ==
    /\ SessionInit
    /\ MdOff
    /\ fn_in \in [destination : PromptDestinations,
                  num_days : Days,
                  interests : SeqsUpTo(PromptChars, MaxField),
                  guardrails : SeqsUpTo(PromptChars, MaxField)]
    /\ fn_out = << >>
    /\ fpc = "call"

PromptCall ==
    /\ fpc = "call"
    /\ fn_out' = build_user_prompt(fn_in.destination, fn_in.num_days,
                                   fn_in.interests, fn_in.guardrails)
    /\ fpc' = "done"
    /\ UNCHANGED fn_in
    /\ UNCHANGED sessionVars
    /\ UNCHANGED mdVars

SpecPrompt == PromptInit /\ [][PromptCall]_vars

----------------------------------------------------------------------------
(* Properties of the session and the fallback loop (specification Spec) *)

CallFailed(c) == c.raised # "" \/ Strip(c.text) = << >>

PlanState == << plan_md, last_model_used, last_usage >>

GenerationRun == result.kind \in {"running", "return", "raise"}

\* C1: in a call of get_plan_markdown the identifiers are invoked in chain
\* order, and as soon as an attempt yields non-empty text the call returns
\* exactly that text, records that attempt's identifier as last_model_used and
\* invokes nothing further; a call that returned has such an attempt as its
\* last invocation.
C1_FirstSuccessIsReturned ==
    GenerationRun =>
        /\ \A k \in 1..Len(calls) :
              /\ calls[k].model = FALLBACK_MODELS[k]
              /\ ~CallFailed(calls[k]) =>
                    /\ k = Len(calls)
                    /\ pc = "idle"
                    /\ result.kind = "return"
                    /\ result.text = calls[k].text
                    /\ last_model_used = FALLBACK_MODELS[k]
        /\ result.kind = "return" =>
              (calls # << >> /\ ~CallFailed(calls[Len(calls)]))

C1_Witness ==
    /\ result.kind = "return"
    /\ Len(calls) = 3
    /\ calls[1].raised # ""
    /\ calls[2].raised = ""
    /\ last_model_used = FALLBACK_MODELS[3]

ExpectedLastError(c) ==
    IF c.raised # "" THEN << c.raised >>
    ELSE << "Model '", c.model, "' returned empty content." >>

\* C2: when every identifier of the chain has failed the call raises, and the
\* message of the raised error carries the error of the last attempt: the
\* text of its exception, or the empty-content error naming the last model.
C2_ExhaustionRaisesLastError ==
    /\ result.kind = "raise" =>
          /\ Len(calls) = Len(FALLBACK_MODELS)
          /\ \A k \in 1..Len(calls) : CallFailed(calls[k])
          /\ result.msg = << "All model attempts failed. Last error: " >>
                            \o ExpectedLastError(calls[Len(calls)])
    /\ ( /\ GenerationRun
         /\ pc = "idle"
         /\ Len(calls) = Len(FALLBACK_MODELS)
         /\ \A k \in 1..Len(calls) : CallFailed(calls[k]) )
          => result.kind = "raise"

C2_Witness ==
    /\ result.kind = "raise"
    /\ calls[2].raised # ""
    /\ calls[3].raised = ""

\* C3: a submit with an empty destination ends in the warning, invokes the
\* collaborator zero times and leaves plan text, last_model_used and
\* last_usage as they were before the submit.
C3_EmptyDestinationNoCall ==
    (destination = "" /\ result.kind \notin {"none", "reset"}) =>
        /\ result.kind = "warning"
        /\ pc = "idle"
        /\ calls = << >>
        /\ PlanState = pre

C3_Witness ==
    /\ result.kind = "warning"
    /\ plan_md # << >>
    /\ last_model_used # Absent

\* C4: a generation that ends with all attempts failed stores nothing: plan
\* text, last_model_used and last_usage equal their values before the submit.
C4_FailureStoresNothing ==
    result.kind = "raise" => PlanState = pre

C4_Witness ==
    /\ result.kind = "raise"
    /\ plan_md # << >>
    /\ last_model_used # Absent

\* C5: after the reset action the session state is the state before the first
\* submission: empty destination, num_days 3, empty interests and guardrails,
\* empty plan text, no last_model_used and no last_usage.
C5_ResetRestoresInitialState ==
    result.kind = "reset" =>
        /\ destination = ""
        /\ num_days = 3
        /\ interests = ""
        /\ guardrails = ""
        /\ plan_md = << >>
        /\ last_model_used = Absent
        /\ last_usage = Absent

C5_Witness ==
    /\ result.kind = "reset"
    /\ pre[1] # << >>
    /\ pre[2] # Absent

\* C6: the stored plan text is always empty or contains a non-whitespace
\* character, and whenever it changes it becomes empty or the whole text of
\* the successful attempt just made.
C6_PlanEmptyOrComplete ==
    /\ [](plan_md = << >> \/ Strip(plan_md) # << >>)
    /\ [][plan_md' # plan_md =>
            \/ plan_md' = << >>
            \/ /\ calls' # << >>
               /\ ~CallFailed(calls'[Len(calls')])
               /\ plan_md' = calls'[Len(calls')].text]_vars

C6_Witness ==
    /\ plan_md # << >>
    /\ plan_md # Strip(plan_md)
    /\ download = "offered"

----------------------------------------------------------------------------
(* Properties of markdown_to_flowables (specifications SpecMd, FairSpecMd) *)

\* after left-trim the line begins with '-', '*' or the bullet character
MarkerLine(l) ==
    \E k \in 1..Len(l) :
        /\ l[k] \in {"-", "*", "U+2022"}
        /\ \A j \in 1..(k - 1) : l[j] \in Whitespace

\* first lines of the maximal blocks of consecutive marker lines
RunStarts ==
    { a \in 1..Len(lines) :
        MarkerLine(lines[a]) /\ (a = 1 \/ ~MarkerLine(lines[a - 1])) }

RunLast(a) ==
    CHOOSE b \in a..Len(lines) :
        /\ \A j \in a..b : MarkerLine(lines[j])
        /\ b = Len(lines) \/ ~MarkerLine(lines[b + 1])

\* elements owed to the lines before line a: one per line outside a run,
\* two (group and spacer) per run
ElemsBefore(a) ==
    Cardinality({ j \in 1..(a - 1) : ~MarkerLine(lines[j]) })
        + 2 * Cardinality({ r \in RunStarts : r < a })

ItemText(l) == Strip(Tail(LStrip(l)))

HasNonBlank(l) == \E k \in 1..Len(l) : l[k] \notin Whitespace

\* C7: every maximal block of consecutive marker lines yields exactly one
\* BulletGroup with one item per line of the block, in order, each item the
\* line without its leading marker and surrounding whitespace, followed by
\* exactly one Spacer of the run; the line after the block is not consumed:
\* it yields its own element (Spacer if blank, otherwise Heading or Paragraph).
C7_BulletRun ==
    mpc = "done" =>
        /\ Cardinality({ p \in 1..Len(flow) : flow[p].type = "BulletGroup" })
              = Cardinality(RunStarts)
        /\ \A a \in RunStarts :
              LET b == RunLast(a)
                  p == ElemsBefore(a) + 1
              IN  /\ p + 1 <= Len(flow)
                  /\ flow[p].type = "BulletGroup"
                  /\ flow[p].items =
                        [j \in 1..(b - a + 1) |-> ItemText(lines[a + j - 1])]
                  /\ flow[p + 1].type = "Spacer"
                  /\ flow[p + 1].h = 4
                  /\ IF b = Len(lines)
                     THEN Len(flow) = p + 1
                     ELSE /\ p + 2 <= Len(flow)
                          /\ flow[p + 2].h # 4
                          /\ flow[p + 2].type \in {"Spacer", "Heading", "Paragraph"}
                          /\ flow[p + 2].type = "Spacer"
                                <=> Strip(lines[b + 1]) = << >>
                          /\ flow[p + 2].type = "Paragraph"
                                => flow[p + 2].text = RStrip(lines[b + 1])
                          /\ flow[p + 2].type = "Heading"
                                => Head(lines[b + 1]) = "#"

C7_Witness ==
    /\ mpc = "done"
    /\ \E a \in RunStarts :
          /\ RunLast(a) > a
          /\ RunLast(a) < Len(lines)
          /\ flow[ElemsBefore(a) + 3].type = "Paragraph"

\* C8: every line that begins with "## " yields a level-2 Heading of the
\* trimmed remainder and every line that begins with "### " a level-3
\* Heading of the trimmed remainder, an empty or whitespace-only remainder
\* included.
C8_HeadingForEveryPrefixedLine ==
    mpc = "done" =>
        \A j \in 1..Len(lines) :
            LET p == ElemsBefore(j) + 1
            IN  /\ StartsWith(lines[j], << "#", "#", " " >>) =>
                      /\ p <= Len(flow)
                      /\ flow[p] = Heading(2, Strip(From(lines[j], 3)))
                /\ StartsWith(lines[j], << "#", "#", "#", " " >>) =>
                      /\ p <= Len(flow)
                      /\ flow[p] = Heading(3, Strip(From(lines[j], 4)))

\* C9: the number of Spacers equals the number of blank lines plus the number
\* of bullet runs; a run directly followed by a blank line yields two
\* consecutive Spacers.
C9_SpacersNotCoalesced ==
    mpc = "done" =>
        /\ Cardinality({ p \in 1..Len(flow) : flow[p].type = "Spacer" })
              = Cardinality({ j \in 1..Len(lines) : Strip(lines[j]) = << >> })
                  + Cardinality(RunStarts)
        /\ \A a \in RunStarts :
              LET b == RunLast(a)
                  p == ElemsBefore(a) + 1
              IN  (b < Len(lines) /\ Strip(lines[b + 1]) = << >>) =>
                      /\ p + 2 <= Len(flow)
                      /\ flow[p + 1].type = "Spacer"
                      /\ flow[p + 2].type = "Spacer"

C9_Witness ==
    /\ mpc = "done"
    /\ Len(flow) = 4
    /\ flow[1].type = "BulletGroup"
    /\ \A p \in 2..4 : flow[p].type = "Spacer"

AllBlank(s) == \A k \in 1..Len(s) : s[k] \in Whitespace

\* lines of a text: one per line break, plus an unterminated last line
NumLines(s) ==
    Cardinality({ k \in 1..Len(s) : s[k] = "\n" })
        + (IF s # << >> /\ s[Len(s)] # "\n" THEN 1 ELSE 0)

RECURSIVE TotalItems(_)
TotalItems(f) ==
    IF f = << >> THEN 0 ELSE Len(Head(f).items) + TotalItems(Tail(f))

CountOf(f, types) == Cardinality({ p \in 1..Len(f) : f[p].type \in types })

\* C17: every input line is accounted for exactly once and in order: the
\* Headings, the Paragraphs, the items of all BulletGroups and the Spacers of
\* blank lines together number as many as the input has lines, and the
\* element (or item) at the position owed to a line is the one made from it.
C17_EveryLineOnceInOrder ==
    mpc = "done" =>
        /\ Len(lines) = NumLines(md_text)
        /\ CountOf(flow, {"Heading", "Paragraph"}) + TotalItems(flow)
              + Cardinality({ p \in 1..Len(flow) :
                                flow[p].type = "Spacer" /\ flow[p].h = 6 })
              = NumLines(md_text)
        /\ Len(flow) = ElemsBefore(Len(lines) + 1)
        /\ \A j \in 1..Len(lines) :
              IF MarkerLine(lines[j])
              THEN \E a \in RunStarts :
                      /\ a <= j
                      /\ j <= RunLast(a)
                      /\ flow[ElemsBefore(a) + 1].type = "BulletGroup"
                      /\ Len(flow[ElemsBefore(a) + 1].items) = RunLast(a) - a + 1
                      /\ flow[ElemsBefore(a) + 1].items[j - a + 1]
                            = ItemText(lines[j])
              ELSE LET el == flow[ElemsBefore(j) + 1]
                       line == RStrip(lines[j])
                   IN  /\ el.type \in {"Spacer", "Heading", "Paragraph"}
                       /\ el.type = "Spacer" =>
                             (el.h = 6 /\ ~HasNonBlank(lines[j]))
                       /\ el.type = "Paragraph" =>
                             (el.text = line /\ HasNonBlank(lines[j]))
                       /\ el.type = "Heading" =>
                             /\ el.level \in {2, 3}
                             /\ \A k \in 1..el.level : line[k] = "#"
                             /\ line[el.level + 1] = " "
                             /\ el.text = Strip(From(line, el.level + 1))

C17_Witness ==
    /\ mpc = "done"
    /\ Len(lines) = 4
    /\ Len(flow) = 4
    /\ flow[1].type = "Spacer"
    /\ flow[1].h = 6
    /\ flow[2].type = "BulletGroup"
    /\ Len(flow[2].items) = 2
    /\ flow[3].h = 4
    /\ flow[4].type = "Paragraph"

----------------------------------------------------------------------------
(* Export, download and metadata properties (specification Spec) *)

\* C11: when write_pdf raises, the plan text and the model/usage metadata are
\* what they were before the export step (the plan just generated, or the
\* plan already stored on a later run), the plan is still displayed, and only
\* the download button is missing.
C11_ExportFailureKeepsPlan ==
    /\ [](download = "pdf_error" =>
            /\ Strip(plan_md) # << >>
            /\ shown = plan_md
            /\ last_model_used # Absent
            /\ last_usage # Absent
            /\ result.kind = "return" =>
                  /\ plan_md = result.text
                  /\ last_model_used = calls[Len(calls)].model)
    /\ [][(download' = "pdf_error" /\ result'.kind # "return") =>
              PlanState' = PlanState]_vars

C11_Witness ==
    /\ download = "pdf_error"
    /\ result.kind = "return"
    /\ shown = plan_md
    /\ plan_md # << >>

\* C12: the download button is offered only while the stored plan text has a
\* non-whitespace character: never in the run of a reset, and from a state
\* without a plan only by a run whose generation succeeded.
C12_DownloadOnlyWithPlan ==
    /\ [](download = "offered" => Strip(plan_md) # << >>)
    /\ [](result.kind = "reset" => download = "none")
    /\ [][(Strip(plan_md) = << >> /\ download' = "offered") =>
              result'.kind = "return"]_vars

C12_Witness ==
    /\ download = "offered"
    /\ result.kind = "return"
    /\ pre[1] = << >>

\* C15: within one call of get_plan_markdown the invocations follow the
\* chain order, no identifier is invoked twice, an attempt is made only after
\* every earlier one has failed, invocations are added one at a time and
\* there are never more of them than identifiers in the chain.
C15_EachIdentifierOnceInOrder ==
    /\ [](GenerationRun =>
            /\ Len(calls) <= Len(FALLBACK_MODELS)
            /\ \A k \in 1..Len(calls) :
                  /\ calls[k].model = FALLBACK_MODELS[k]
                  /\ k < Len(calls) => CallFailed(calls[k])
                  /\ \A j \in 1..Len(calls) :
                        j # k => calls[j].model # calls[k].model)
    /\ [][(pc = "loop" /\ calls' # calls) =>
              /\ Len(calls') = Len(calls) + 1
              /\ SubSeq(calls', 1, Len(calls)) = calls]_vars

C15_Witness ==
    /\ pc = "loop"
    /\ Len(calls) = 3
    /\ calls[1].raised # ""
    /\ calls[2].raised = ""
    /\ calls[3].raised # ""

\* C16: when a user action has ended, last_model_used (and last_usage) are
\* present exactly when the stored plan text is non-empty; after a successful
\* generation the plan text, last_model_used and last_usage are the text, the
\* identifier and the usage of the same attempt, and they change together
\* only by such a generation or by a reset.
C16_MetadataMatchesPlan ==
    /\ [](pc = "idle" =>
            /\ last_model_used # Absent <=> Strip(plan_md) # << >>
            /\ last_usage # Absent <=> last_model_used # Absent)
    /\ [](result.kind = "return" =>
            LET c == calls[Len(calls)]
            IN  /\ plan_md = c.text
                /\ last_model_used = c.model
                /\ last_usage = IF c.usage = Absent THEN "None" ELSE c.usage)
    /\ [][PlanState' # PlanState => result'.kind \in {"return", "reset"}]_vars

C16_Witness ==
    /\ result.kind = "return"
    /\ last_model_used = FALLBACK_MODELS[2]
    /\ last_usage = "U1"
    /\ pre[2] = FALLBACK_MODELS[1]
    /\ pre[3] = "None"

----------------------------------------------------------------------------
(* Properties of _extract_text_from_chat_completion (SpecExtract) *)

HasNonWhitespace(s) == \E k \in 1..Len(s) : s[k] \notin Whitespace

\* s without its leading and trailing whitespace
Trimmed(s) ==
    IF ~HasNonWhitespace(s) THEN << >>
    ELSE LET lo == CHOOSE k \in 1..Len(s) :
                      /\ s[k] \notin Whitespace
                      /\ \A j \in 1..(k - 1) : s[j] \in Whitespace
             hi == CHOOSE k \in 1..Len(s) :
                      /\ s[k] \notin Whitespace
                      /\ \A j \in (k + 1)..Len(s) : s[j] \in Whitespace
         IN  SubSeq(s, lo, hi)

\* texts of the plain-string fragments and of the records with a text field
ExtractableTexts(parts) ==
    LET sel == SelectSeq(parts, LAMBDA p : p.kind \in {"str", "dict"})
    IN  [k \in 1..Len(sel) |-> sel[k].text]

RECURSIVE NewlineJoined(_, _)
NewlineJoined(ts, n) ==
    IF n = 0 THEN << >>
    ELSE IF n = 1 THEN ts[1]
    ELSE NewlineJoined(ts, n - 1) \o << "\n" >> \o ts[n]

\* C13: the extractor returns a string content unchanged when it has a
\* non-whitespace character, the trimmed newline-join of the extractable
\* fragment texts when the content is a list and that join is non-empty, and
\* the empty string for every other shape (no candidate, whitespace-only
\* string, no content, list without extractable text).
C13_ExtractedText ==
    fpc = "done" =>
        LET c == fn_in.content
            joined == Trimmed(NewlineJoined(ExtractableTexts(c.parts),
                                            Len(ExtractableTexts(c.parts))))
        IN  IF fn_in.has_choice /\ c.kind = "str" /\ HasNonWhitespace(c.s)
            THEN fn_out = c.s
            ELSE IF fn_in.has_choice /\ c.kind = "list" /\ joined # << >>
            THEN fn_out = joined
            ELSE fn_out = << >>

C13_Witness ==
    /\ fpc = "done"
    /\ fn_in.content.kind = "list"
    /\ Len(fn_in.content.parts) = 2
    /\ fn_in.content.parts[1].kind = "dict"
    /\ fn_in.content.parts[2].kind = "str"
    /\ fn_out = << "a", "\n", "a" >>

----------------------------------------------------------------------------
(* Properties of build_user_prompt (SpecPrompt) *)

Contains(s, sub) ==
    \E k \in 0..(Len(s) - Len(sub)) : SubSeq(s, k + 1, k + Len(sub)) = sub

\* C14: the prompt contains the destination and the decimal num_days
\* verbatim, the interests and the guardrails verbatim when they are not
\* empty, and "No special interests provided" / "None" in their place when
\* they are empty.
C14_PromptEmbedsInputs ==
    fpc = "done" =>
        /\ Contains(fn_out, fn_in.destination)
        /\ Contains(fn_out, IntStr(fn_in.num_days))
        /\ IF fn_in.interests # << >>
           THEN Contains(fn_out, fn_in.interests)
           ELSE Contains(fn_out, << "- Special interests:", " ",
                                    "No special interests provided", "\n" >>)
        /\ IF fn_in.guardrails # << >>
           THEN Contains(fn_out, fn_in.guardrails)
           ELSE Contains(fn_out, << "- Guardrails / constraints:", " ",
                                    "None", "\n" >>)

====
